---- MODULE Spec2Model ----
(***************************************************************************)
(* Agent control plane of src/cursor_compatible/src/api/agent_controller.py *)
(* The Store (Redis keys), the Command Channel (Redis pub/sub), the Control *)
(* API handlers and the WebSocket broadcaster, as a state machine whose     *)
(* steps are the handlers' code between two awaits.                         *)
(***************************************************************************)
EXTENDS Integers, Sequences, FiniteSets, TLC

(***************************************************************************)
(* Bounds of the model.                                                    *)
(***************************************************************************)
MaxCalls    == 2   \* Control API calls issued in one behaviour of Spec
ApiConns    == 1   \* observer connections opened in one behaviour of Spec
FanoutCalls == 1   \* Control API calls issued in one behaviour of FanoutSpec
FanoutConns == 2   \* observer connections opened in one behaviour of FanoutSpec
MaxConns    == 3   \* observer connections opened in one behaviour of ChurnSpec
MaxClock    == 1   \* last value of the wall clock

Agents  == {"a1", "a2"}
CallIds == 1..MaxCalls
Conns   == 1..MaxConns

(***************************************************************************)
(* JSON values.  Every value is a record of the same shape, so that any    *)
(* two values can be compared: kind is "doc" (a dict, its items in kids),  *)
(* "seq" (a list), "scalar" (string, number, boolean; val is its literal)  *)
(* or "absent" (None / the key does not exist).                            *)
(***************************************************************************)
NoKids    == [k \in {} |-> 0]
Absent    == [kind |-> "absent", val |-> "", kids |-> NoKids]
Scalar(s) == [kind |-> "scalar", val |-> s, kids |-> NoKids]
List(s)   == [kind |-> "seq", val |-> s, kids |-> NoKids]
Doc(f)    == [kind |-> "doc", val |-> "", kids |-> f]

\* bytes of the Store that json.loads does not accept
Malformed == [kind |-> "malformed", val |-> "{", kids |-> NoKids]
\* an exception raised while a value is worked out
Raise     == [kind |-> "raise", val |-> "", kids |-> NoKids]

\* the literals of numbers among the scalars the model draws
IntLiterals == {"0", "1", "5", "7", "9", "17"}
Numbers     == IntLiterals \cup {"0.0", "1.5", "2.5"}

IsDict(v) == v.kind = "doc"
Has(v, k) == IsDict(v) /\ k \in DOMAIN v.kids
\* dict.get(k, default)
Get(v, k, default) == IF k \in DOMAIN v.kids THEN v.kids[k] ELSE default
\* d[k] = v on a dict given by its items
Put(d, k, v) == [x \in DOMAIN d \cup {k} |-> IF x = k THEN v ELSE d[x]]
\* Python truth value of a JSON value
Truthy(v) ==
    CASE v.kind = "doc"    -> DOMAIN v.kids # {}
      [] v.kind = "seq"    -> v.val # "[]"
      [] v.kind = "scalar" -> v.val \notin {"false", "0", ""}
      [] OTHER             -> FALSE

(***************************************************************************)
(* Pure parts of the handlers.                                             *)
(***************************************************************************)
\* inject_config.deep_update: for k, v in u.items(): merge dict into dict,
\* otherwise d[k] = v.  d and u are the items of two dicts; keys is what is
\* left of u.items().
RECURSIVE deep_update_items(_, _, _)
deep_update_items(d, u, keys) ==
    IF keys = {} THEN d
    ELSE LET k == CHOOSE x \in keys : TRUE
             v == u[k]
             d1 == IF IsDict(v) /\ k \in DOMAIN d /\ IsDict(d[k])
                   THEN Put(d, k, Doc(deep_update_items(d[k].kids, v.kids, DOMAIN v.kids)))
                   ELSE Put(d, k, v)
         IN deep_update_items(d1, u, keys \ {k})

\* a variant that replaces every value of the patch wholesale, as dict.update
shallow_update(d, u) ==
    [k \in DOMAIN d \cup DOMAIN u |-> IF k \in DOMAIN u THEN u[k] ELSE d[k]]

deep_update(d, u) == deep_update_items(d, u, DOMAIN u)

\* a variant that shows an agent that is starting up as such
state_to_status_initializing(state) ==
    IF state = "paused" THEN "paused"
    ELSE IF state = "disabled" THEN "paused"
    ELSE IF state = "initializing" THEN "initializing"
    ELSE "running"

\* list_agents: raw state to status
state_to_status(state) ==
    IF state = "paused" THEN "paused"
    ELSE IF state = "disabled" THEN "paused"
    ELSE "running"

\* a variant that forgets the canaryMode flag
in_canary_mode_by_mode_only(exec_config) ==
    Get(exec_config, "mode", Absent) = Scalar("canary")

\* exec_config.get("mode") == "canary" or exec_config.get("canaryMode", False)
in_canary_mode(exec_config) ==
    \/ Get(exec_config, "mode", Absent) = Scalar("canary")
    \/ Truthy(Get(exec_config, "canaryMode", Scalar("false")))

\* "config" in agent_json and "executionConfig" in agent_json["config"]
has_exec_config(agent_json) ==
    /\ Has(agent_json, "config")
    /\ Has(agent_json.kids["config"], "executionConfig")

exec_config_of(agent_json) == agent_json.kids["config"].kids["executionConfig"]

\* list_agents: the status shown for an agent; "raise" when exec_config.get
\* is called on a value that is no dict (AttributeError, caught by the
\* handler's except, which drops the agent from the listing).
panel_status(agent_json, state) ==
    IF has_exec_config(agent_json)
    THEN IF ~IsDict(exec_config_of(agent_json)) THEN "raise"
         ELSE IF in_canary_mode(exec_config_of(agent_json)) THEN "canary"
         ELSE state_to_status(state)
    ELSE state_to_status(state)

\* list_agents: available actions based on status
panel_actions(status) ==
    IF status = "running" THEN <<"pause", "restart">>
    ELSE IF status = "paused" THEN <<"resume", "restart">>
    ELSE IF status = "canary" THEN <<"promote", "pause", "restart">>
    ELSE <<>>

\* pause_agent / resume_agent / restart_agent differ in three literals
requested_event(op) ==
    CASE op = "pause"   -> "pause_requested"
      [] op = "resume"  -> "resume_requested"
      [] op = "restart" -> "restart_requested"

command_topic(op) ==
    CASE op = "pause"   -> "pause"
      [] op = "resume"  -> "resume"
      [] op = "restart" -> "restart"

\* a variant in which restart leaves the agent marked running
new_state_restart_running(op) ==
    CASE op = "pause"   -> "paused"
      [] op = "resume"  -> "running"
      [] op = "restart" -> "running"

\* a variant in which pause marks the agent disabled
new_state_pause_disabled(op) ==
    CASE op = "pause"   -> "disabled"
      [] op = "resume"  -> "running"
      [] op = "restart" -> "initializing"

new_state(op) ==
    CASE op = "pause"   -> "paused"
      [] op = "resume"  -> "running"
      [] op = "restart" -> "initializing"

\* a variant that leaves canaryMode as it is
promoted_exec_mode_only(exec_config) ==
    Doc(Put(exec_config.kids, "mode", Scalar("live")))

\* promote_canary: exec_config["mode"] = "live"; exec_config["canaryMode"] = False
promoted_exec(exec_config) ==
    Doc(Put(Put(exec_config.kids, "mode", Scalar("live")), "canaryMode", Scalar("false")))

\* a variant that sends the executionConfig as it was read
promote_command_stale(agent_json) ==
    Doc("executionConfig" :> exec_config_of(agent_json))

\* promote_canary: the command payload {"executionConfig": exec_config}
promote_command(agent_json) ==
    Doc("executionConfig" :> promoted_exec(exec_config_of(agent_json)))

promoted_registration(agent_json) ==
    Doc(Put(agent_json.kids, "config",
            Doc(Put(agent_json.kids["config"].kids, "executionConfig",
                    promoted_exec(exec_config_of(agent_json))))))

\* a variant that stores the merged config and nothing else
injected_registration_config_only(agent_json, config) ==
    LET old == IF "config" \in DOMAIN agent_json.kids
               THEN agent_json.kids["config"].kids ELSE NoKids
    IN Doc("config" :> Doc(deep_update(old, config)))

\* inject_config: agent_json after deep_update(agent_json["config"], update.config)
injected_registration(agent_json, config) ==
    LET old == IF "config" \in DOMAIN agent_json.kids
               THEN agent_json.kids["config"].kids ELSE NoKids
    IN Doc(Put(agent_json.kids, "config", Doc(deep_update(old, config))))

(***************************************************************************)
(* Auth gate.  A token is its claims and its signature; the signature is   *)
(* what HS256 makes of the claims under a key, so it fits no other claims   *)
(* and no other key.  Time is in minutes.                                   *)
(***************************************************************************)
JWT_SECRET == "your-secret-key"
ADMIN_PASSWORD == "admin"
ACCESS_TOKEN_EXPIRE_MINUTES == 1440

jwt_sign(sub, exp, key) == <<key, sub, exp>>

\* jwt.encode(to_encode, key, algorithm=JWT_ALGORITHM)
jwt_encode(sub, exp, key) == [sub |-> sub, exp |-> exp, sig |-> jwt_sign(sub, exp, key)]

NoToken == [sub |-> "", exp |-> 0, sig |-> jwt_sign("", 0, "")]

\* create_access_token: expire = utcnow() + timedelta(minutes=...)
create_access_token(sub, at) ==
    jwt_encode(sub, at + ACCESS_TOKEN_EXPIRE_MINUTES, JWT_SECRET)

\* jwt.decode(token, key, algorithms=[JWT_ALGORITHM]): the signature is
\* verified, then the exp claim against the clock
jwt_decode(token, key, at) ==
    IF token.sig # jwt_sign(token.sub, token.exp, key) THEN "InvalidSignatureError"
    ELSE IF token.exp <= at THEN "ExpiredSignatureError"
    ELSE "ok"

\* str.lower() on the schemes the model draws
lower(scheme) ==
    CASE scheme = "Bearer" -> "bearer"
      [] scheme = "BEARER" -> "bearer"
      [] scheme = "Basic"  -> "basic"
      [] OTHER             -> scheme

\* The Authorization header as authorization.split() sees it: the number of
\* words, the first and the second.
Header(words, scheme, token) == [words |-> words, scheme |-> scheme, token |-> token]
NoHeader == Header(0, "", NoToken)

\* a variant that takes any scheme
verify_token_any_scheme(authorization, at) ==
    IF authorization.words # 2 THEN "Unauthorized"
    ELSE IF jwt_decode(authorization.token, JWT_SECRET, at) # "ok" THEN "Unauthorized"
    ELSE "ok"

\* verify_token: scheme, token = authorization.split() raises ValueError
\* unless there are two words; every exception ends in HTTPException(401)
verify_token(authorization, at) ==
    IF authorization.words # 2 THEN "Unauthorized"
    ELSE IF lower(authorization.scheme) # "bearer" THEN "Unauthorized"
    ELSE IF jwt_decode(authorization.token, JWT_SECRET, at) # "ok" THEN "Unauthorized"
    ELSE "ok"

\* login_for_access_token: the test of the credential pair
credentials_ok(username, password) == username = "admin" /\ password = ADMIN_PASSWORD

(***************************************************************************)
(* The documents and patches the model draws from.                         *)
(***************************************************************************)
ExecLiveFlag == Doc(("mode" :> Scalar("live")) @@ ("canaryMode" :> Scalar("true")))
ExecCanary   == Doc(("mode" :> Scalar("canary")) @@ ("size" :> Scalar("1")))
NestedA      == Doc(("b" :> Scalar("1")) @@ ("c" :> List("[2]")))

cfgPlain  == ("a" :> NestedA)
cfgCanary == ("a" :> NestedA) @@ ("executionConfig" :> ExecCanary)
cfgFlag   == ("a" :> Scalar("7")) @@ ("executionConfig" :> ExecLiveFlag)

RegNoConfig(a) == Doc(("agentId" :> Scalar(a)) @@ ("agentType" :> Scalar("arbitrage")))
Reg(a, cfg)    == Doc(("agentId" :> Scalar(a)) @@ ("agentType" :> Scalar("arbitrage"))
                      @@ ("name" :> Scalar(a)) @@ ("tradingPairs" :> List("[BTC/USD]"))
                      @@ ("config" :> Doc(cfg)))

InitRegs(a) == {Absent, RegNoConfig(a), Reg(a, cfgPlain), Reg(a, cfgCanary), Reg(a, cfgFlag)}

MetricsPlain  == Doc("pnl" :> Scalar("1.5"))
MetricsCustom == Doc(("pnl" :> Scalar("1.5")) @@ ("custom" :> Doc("pnl_24h" :> Scalar("2.5"))))
MetricsText   == Doc("pnl" :> Scalar("n/a"))

patchNested  == ("a" :> Doc("b" :> Scalar("5")))
patchReplace == ("a" :> Scalar("9"))
patchCanary  == ("executionConfig" :> Doc("mode" :> Scalar("canary")))
patchScalar  == ("executionConfig" :> Scalar("9"))
Patches == {patchNested, patchReplace, patchCanary, patchScalar}

(***************************************************************************)
(* State.                                                                  *)
(***************************************************************************)
VARIABLES
    registration,        \* Store: agent:{id}:registration, a JSON value or Absent
    state,               \* Store: agent:{id}:state, the raw string, "" when absent
    metrics,             \* Store: agent:{id}:metrics, as the agent wrote it
    last_signal,         \* Store: agent:{id}:last_signal, as the agent wrote it
    now,                 \* the wall clock, in timestamps
    calls,               \* the Control API calls: request, position, locals, effects
    active_connections,  \* the registry dict: client ids in insertion order, 0 where popped
    wsPc,                \* websocket_agent_events: position of each connection's handler
    sock,                \* each observer's socket: "ok", "stuck" (never read) or "broken"
    subscribed,          \* whether the connection's pubsub is subscribed to agent_events
    buffer,              \* messages of agent_events waiting in the connection's pubsub
    relay,               \* process_redis_messages of the connection: "none", "running", "dead"
    inbox                \* what each observer has received, in order

agentVars == <<metrics, last_signal>>
storeVars == <<registration, state, metrics, last_signal>>
wsVars    == <<wsPc, sock, subscribed, relay>>
vars == <<registration, state, metrics, last_signal, now, calls, active_connections,
          wsPc, sock, subscribed, buffer, relay, inbox>>

IdleCall ==
    [op |-> "none", agentId |-> "", config |-> NoKids, pc |-> "idle",
     agent_data |-> Absent, state |-> "", result |-> "", started |-> 0, ts |-> 0,
     fx |-> <<>>, keys |-> <<>>, agents |-> <<>>,
     pos |-> 0, used |-> 0, len |-> 0, cur |-> 0, disconnected |-> {},
     targets |-> {}, emit |-> 0, authorization |-> NoHeader, credentials |-> <<"", "">>, token |-> NoToken]

\* One effect of a call: k is "event" (a publish on agent_events), "cmd" (a
\* publish on agent:{agent}:{name}), "set" (a Store write of document name)
\* or "ws" (a message handed to broadcast_websocket_message).
Fx(k, name, agent, ts, val) ==
    [k |-> k, name |-> name, agent |-> agent, ts |-> ts, val |-> val]

\* A message as an observer receives it; call is the call it stems from
\* (0: none), via the path it took: "local", "relay" or "direct".
Msg(name, agent, ts, val, call, via) ==
    [name |-> name, agent |-> agent, ts |-> ts, val |-> val, call |-> call, via |-> via]

\* what the agents have reported when nothing is wrong with it
Reported ==
    /\ metrics = [a \in Agents |-> MetricsPlain]
    /\ last_signal = [a \in Agents |-> Scalar("17")]

\* no call yet, no observer yet, the clock at 0
Quiet ==
    /\ now = 0
    /\ calls = [i \in CallIds |-> IdleCall]
    /\ active_connections = <<>>
    /\ wsPc = [c \in Conns |-> "init"]
    /\ sock = [c \in Conns |-> "ok"]
    /\ subscribed = [c \in Conns |-> FALSE]
    /\ buffer = [c \in Conns |-> <<>>]
    /\ relay = [c \in Conns |-> "none"]
    /\ inbox = [c \in Conns |-> <<>>]

\* The Store as the agents (out of scope here) have left it: a1 in any of
\* the shapes above, a2 a registered canary agent that reported "disabled".
Init ==
    /\ registration \in [Agents -> UNION {InitRegs(a) : a \in Agents}]
    /\ registration["a1"] \in InitRegs("a1")
    /\ registration["a2"] = Reg("a2", cfgCanary)
    /\ state \in [Agents -> {"", "disabled"}]
    /\ state["a2"] = "disabled"
    /\ Reported
    /\ Quiet

(***************************************************************************)
(* The Command Channel and the registry.                                   *)
(***************************************************************************)
\* redis publish on agent_events: every subscribed pubsub gets the message
Published(m) ==
    [c \in Conns |-> IF subscribed[c] THEN Append(buffer[c], m) ELSE buffer[c]]

\* active_connections.pop(client_id, None) for every id of ids
Popped(entries, ids) ==
    [j \in DOMAIN entries |-> IF entries[j] \in ids THEN 0 ELSE entries[j]]

LiveCount(entries) == Cardinality({j \in DOMAIN entries : entries[j] # 0})

\* the dict iterator: the next used entry after position pos, 0 at the end
NextEntry(entries, pos) ==
    IF \E j \in DOMAIN entries : j > pos /\ entries[j] # 0
    THEN CHOOSE j \in DOMAIN entries :
            /\ j > pos /\ entries[j] # 0
            /\ \A h \in DOMAIN entries : (h > pos /\ entries[h] # 0) => j <= h
    ELSE 0

\* a variant without the try around the send: the first failed send ends
\* the fan-out
BroadcastNext_unguarded(c, entries) ==
    LET j == NextEntry(entries, c.pos) IN
    IF c.disconnected # {} \/ LiveCount(entries) # c.used \/ (j # 0 /\ c.len = 0)
    THEN [call |-> [c EXCEPT !.pc = "done", !.result = "InternalError", !.cur = 0],
          entries |-> entries]
    ELSE IF j = 0
    THEN [call |-> [c EXCEPT !.pc = "done", !.result = "ok", !.cur = 0],
          entries |-> entries]
    ELSE [call |-> [c EXCEPT !.pc = "send", !.pos = j, !.len = c.len - 1,
                             !.cur = entries[j]],
          entries |-> entries]

\* broadcast_websocket_message, from the iterator's next() to the next await:
\* c is the call's record, entries the registry as it is now.  Gives the
\* call's record and the registry after the step.
BroadcastNext(c, entries) ==
    LET j == NextEntry(entries, c.pos) IN
    IF LiveCount(entries) # c.used \/ (j # 0 /\ c.len = 0)
    THEN \* RuntimeError: dictionary changed size / keys changed during iteration
         [call |-> [c EXCEPT !.pc = "done", !.result = "InternalError", !.cur = 0],
          entries |-> entries]
    ELSE IF j = 0
    THEN \* the loop is over: clean up disconnected clients, the handler returns
         [call |-> [c EXCEPT !.pc = "done", !.result = "ok", !.cur = 0],
          entries |-> Popped(entries, c.disconnected)]
    ELSE [call |-> [c EXCEPT !.pc = "send", !.pos = j, !.len = c.len - 1,
                             !.cur = entries[j]],
          entries |-> entries]

\* the client ids in the registry
Registered(entries) == {entries[j] : j \in DOMAIN entries} \ {0}

\* broadcast_websocket_message(message) is entered: disconnected = [], the
\* iterator over active_connections.items() is created and advanced once;
\* targets remembers who was registered at this moment, emit the how manieth
\* message handed over this one is
BroadcastStart(c, entries, name, val) ==
    BroadcastNext([c EXCEPT !.fx = Append(c.fx, Fx("ws", name, c.agentId, now, val)),
                            !.pos = 0, !.used = LiveCount(entries),
                            !.len = LiveCount(entries), !.disconnected = {},
                            !.targets = Registered(entries),
                            !.emit = 1 + Cardinality({j \in CallIds : calls[j].emit > 0})],
                  entries)

\* the message a call is broadcasting: the last thing it handed over
BroadcastMessage(i) ==
    LET e == calls[i].fx[Len(calls[i].fx)]
    IN Msg(e.name, e.agent, e.ts, e.val, i, "direct")

(***************************************************************************)
(* Control API.  A call is accepted, then runs from await to await.        *)
(***************************************************************************)
Ops == {"list", "getConfig", "pause", "resume", "restart", "injectConfig", "promoteCanary"}
Lifecycle == {"pause", "resume", "restart"}

FirstAwait(op) ==
    CASE op = "list"      -> "keys"
      [] op \in Lifecycle -> "exists"
      [] OTHER            -> "get"

\* a request arrives: FastAPI parses it and enters the handler
Call(i, op, a, config) ==
    /\ calls[i].pc = "idle"
    /\ i > 1 => calls[i - 1].pc # "idle"
    /\ calls' = [calls EXCEPT ![i] = [IdleCall EXCEPT !.op = op, !.agentId = a,
                    !.config = config, !.pc = FirstAwait(op), !.started = now]]
    /\ UNCHANGED <<storeVars, now, active_connections, wsVars, buffer, inbox>>

Finish(c, result) == [c EXCEPT !.pc = "done", !.result = result]

\* get_agent_config
get_agent_config(i) ==
    LET c == calls[i] IN
    /\ c.op = "getConfig" /\ c.pc = "get"
    /\ calls' = [calls EXCEPT ![i] =
          IF registration[c.agentId] = Absent
          THEN Finish(c, "AgentNotFound")
          ELSE Finish([c EXCEPT !.agent_data = registration[c.agentId]], "ok")]
    /\ UNCHANGED <<storeVars, now, active_connections, wsVars, buffer, inbox>>

\* a variant that skips the test
exists_unchecked(reg) == TRUE

\* r.exists(reg_key), as the handlers test it
exists(reg) == reg # Absent

\* pause_agent, resume_agent, restart_agent: exists = await r.exists(reg_key)
lifecycle_exists(i) ==
    LET c == calls[i] IN
    /\ c.op \in Lifecycle /\ c.pc = "exists"
    /\ calls' = [calls EXCEPT ![i] =
          IF ~exists(registration[c.agentId])
          THEN Finish(c, "AgentNotFound")
          ELSE [c EXCEPT !.pc = "publish_event", !.ts = now]]
    /\ UNCHANGED <<storeVars, now, active_connections, wsVars, buffer, inbox>>

\* await publish_agent_event(r, "<op>_requested", agent.agentId)
lifecycle_publish_event(i) ==
    LET c == calls[i] IN
    /\ c.op \in Lifecycle /\ c.pc = "publish_event"
    /\ buffer' = Published(Msg(requested_event(c.op), c.agentId, c.ts, Absent, i, "relay"))
    /\ calls' = [calls EXCEPT ![i] = [c EXCEPT !.pc = "publish_cmd",
          !.fx = Append(c.fx, Fx("event", requested_event(c.op), c.agentId, c.ts, Absent))]]
    /\ UNCHANGED <<storeVars, now, active_connections, wsVars, inbox>>

\* await r.publish(f"agent:{agent.agentId}:<op>", "")
lifecycle_publish_command(i) ==
    LET c == calls[i] IN
    /\ c.op \in Lifecycle /\ c.pc = "publish_cmd"
    /\ calls' = [calls EXCEPT ![i] = [c EXCEPT !.pc = "set",
          !.fx = Append(c.fx, Fx("cmd", command_topic(c.op), c.agentId, 0, Scalar("")))]]
    /\ UNCHANGED <<storeVars, now, active_connections, wsVars, buffer, inbox>>

\* a variant whose state key names no agent: every agent's state is written
lifecycle_set_state_every_agent(i) ==
    LET c == calls[i] IN
    /\ c.op \in Lifecycle /\ c.pc = "set"
    /\ state' = [a \in Agents |-> new_state(c.op)]
    /\ calls' = [calls EXCEPT ![i] = [c EXCEPT !.pc = "broadcast",
          !.fx = Append(c.fx, Fx("set", "state", c.agentId, 0, Scalar(new_state(c.op))))]]
    /\ UNCHANGED <<registration, agentVars, now, active_connections, wsVars, buffer, inbox>>

\* await r.set(state_key, <state>): Redis stores the state.  The handler is
\* resumed in a later step: the reply has to come back and the event loop to
\* pick the handler, and another handler's write may be stored in between.
lifecycle_set_state(i) ==
    LET c == calls[i] IN
    /\ c.op \in Lifecycle /\ c.pc = "set"
    /\ state' = [state EXCEPT ![c.agentId] = new_state(c.op)]
    /\ calls' = [calls EXCEPT ![i] = [c EXCEPT !.pc = "broadcast",
          !.fx = Append(c.fx, Fx("set", "state", c.agentId, 0, Scalar(new_state(c.op))))]]
    /\ UNCHANGED <<registration, agentVars, now, active_connections, wsVars, buffer, inbox>>

\* a variant that also publishes agent_status_changed on agent_events
lifecycle_broadcast_and_publish(i) ==
    LET c == calls[i]
        b == BroadcastStart(c, active_connections,
                            "agent_status_changed", Scalar(new_state(c.op)))
    IN
    /\ c.op \in Lifecycle /\ c.pc = "broadcast"
    /\ buffer' = Published(Msg("agent_status_changed", c.agentId, now,
                               Scalar(new_state(c.op)), i, "relay"))
    /\ calls' = [calls EXCEPT ![i] = b.call]
    /\ active_connections' = b.entries
    /\ UNCHANGED <<storeVars, now, wsVars, inbox>>

\* the handler is resumed: await broadcast_websocket_message({"type":
\* "agent_status_changed", ..., "status": <state>}) is entered
lifecycle_broadcast(i) ==
    LET c == calls[i]
        b == BroadcastStart(c, active_connections,
                            "agent_status_changed", Scalar(new_state(c.op)))
    IN
    /\ c.op \in Lifecycle /\ c.pc = "broadcast"
    /\ calls' = [calls EXCEPT ![i] = b.call]
    /\ active_connections' = b.entries
    /\ UNCHANGED <<storeVars, now, wsVars, buffer, inbox>>

\* inject_config: agent_data = await r.get(reg_key)
inject_config_get(i) ==
    LET c == calls[i] IN
    /\ c.op = "injectConfig" /\ c.pc = "get"
    /\ calls' = [calls EXCEPT ![i] =
          IF registration[c.agentId] = Absent
          THEN Finish(c, "AgentNotFound")
          ELSE [c EXCEPT !.agent_data = registration[c.agentId],
                         !.pc = "publish_event", !.ts = now]]
    /\ UNCHANGED <<storeVars, now, active_connections, wsVars, buffer, inbox>>

\* await publish_agent_event(r, "config_update_requested", ..., {"config": update.config})
inject_config_publish_event(i) ==
    LET c == calls[i] IN
    /\ c.op = "injectConfig" /\ c.pc = "publish_event"
    /\ buffer' = Published(Msg("config_update_requested", c.agentId, c.ts,
                               Doc(c.config), i, "relay"))
    /\ calls' = [calls EXCEPT ![i] = [c EXCEPT !.pc = "publish_cmd",
          !.fx = Append(c.fx, Fx("event", "config_update_requested", c.agentId,
                                 c.ts, Doc(c.config)))]]
    /\ UNCHANGED <<storeVars, now, active_connections, wsVars, inbox>>

\* await r.publish(f"agent:{update.agentId}:inject_config", json.dumps(update.config))
inject_config_publish_command(i) ==
    LET c == calls[i] IN
    /\ c.op = "injectConfig" /\ c.pc = "publish_cmd"
    /\ calls' = [calls EXCEPT ![i] = [c EXCEPT !.pc = "set",
          !.fx = Append(c.fx, Fx("cmd", "inject_config", c.agentId, 0, Doc(c.config)))]]
    /\ UNCHANGED <<storeVars, now, active_connections, wsVars, buffer, inbox>>

\* await r.set(reg_key, json.dumps(agent_json)) with the config merged into
\* the registration read at the start, then broadcast_websocket_message
inject_config_set(i) ==
    LET c == calls[i]
        merged == injected_registration(c.agent_data, c.config)
        written == [c EXCEPT !.fx = Append(c.fx,
                        Fx("set", "registration", c.agentId, 0, merged))]
        b == BroadcastStart(written, active_connections, "agent_config_updated", Absent)
    IN
    /\ c.op = "injectConfig" /\ c.pc = "set"
    /\ registration' = [registration EXCEPT ![c.agentId] = merged]
    /\ calls' = [calls EXCEPT ![i] = b.call]
    /\ active_connections' = b.entries
    /\ UNCHANGED <<state, agentVars, now, wsVars, buffer, inbox>>

\* promote_canary: agent_data = await r.get(reg_key) and the precondition
\* checks; exec_config.get on a value that is no dict raises AttributeError,
\* which FastAPI answers with an internal server error.
promote_canary_get(i) ==
    LET c == calls[i]
        agent_json == registration[c.agentId]
    IN
    /\ c.op = "promoteCanary" /\ c.pc = "get"
    /\ calls' = [calls EXCEPT ![i] =
          IF agent_json = Absent THEN Finish(c, "AgentNotFound")
          ELSE IF ~has_exec_config(agent_json) THEN Finish(c, "NoExecutionConfig")
          ELSE IF ~IsDict(exec_config_of(agent_json)) THEN Finish(c, "InternalError")
          ELSE IF ~in_canary_mode(exec_config_of(agent_json)) THEN Finish(c, "NotInCanary")
          ELSE [c EXCEPT !.agent_data = agent_json, !.pc = "set"]]
    /\ UNCHANGED <<storeVars, now, active_connections, wsVars, buffer, inbox>>

\* await r.set(reg_key, json.dumps(agent_json)) with mode live, canaryMode False
promote_canary_set(i) ==
    LET c == calls[i]
        promoted == promoted_registration(c.agent_data)
    IN
    /\ c.op = "promoteCanary" /\ c.pc = "set"
    /\ registration' = [registration EXCEPT ![c.agentId] = promoted]
    /\ calls' = [calls EXCEPT ![i] = [c EXCEPT !.pc = "publish_event", !.ts = now,
          !.fx = Append(c.fx, Fx("set", "registration", c.agentId, 0, promoted))]]
    /\ UNCHANGED <<state, agentVars, now, active_connections, wsVars, buffer, inbox>>

\* await publish_agent_event(r, "canary_promoted", agent.agentId, {"newMode": "live"})
promote_canary_publish_event(i) ==
    LET c == calls[i] IN
    /\ c.op = "promoteCanary" /\ c.pc = "publish_event"
    /\ buffer' = Published(Msg("canary_promoted", c.agentId, c.ts, Scalar("live"), i, "relay"))
    /\ calls' = [calls EXCEPT ![i] = [c EXCEPT !.pc = "publish_cmd",
          !.fx = Append(c.fx, Fx("event", "canary_promoted", c.agentId, c.ts,
                                 Scalar("live")))]]
    /\ UNCHANGED <<storeVars, now, active_connections, wsVars, inbox>>

\* await r.publish(config_command, json.dumps({"executionConfig": exec_config})),
\* then broadcast_websocket_message is entered
promote_canary_publish_command(i) ==
    LET c == calls[i]
        payload == promote_command(c.agent_data)
        sent == [c EXCEPT !.fx = Append(c.fx,
                     Fx("cmd", "inject_config", c.agentId, 0, payload))]
        b == BroadcastStart(sent, active_connections, "agent_status_changed",
                            Scalar("running"))
    IN
    /\ c.op = "promoteCanary" /\ c.pc = "publish_cmd"
    /\ calls' = [calls EXCEPT ![i] = b.call]
    /\ active_connections' = b.entries
    /\ UNCHANGED <<storeVars, now, wsVars, buffer, inbox>>

\* broadcast_websocket_message: await websocket.send_json(message) ends, by
\* delivery or by an exception (the client is appended to disconnected); a
\* send to a socket that is never read does not end.  Then the loop goes on.
broadcast_send(i) ==
    LET c == calls[i]
        failed == sock[c.cur] = "broken"
        after == [c EXCEPT !.disconnected =
                      IF failed THEN c.disconnected \cup {c.cur} ELSE c.disconnected]
        b == BroadcastNext(after, active_connections)
    IN
    /\ c.pc = "send"
    /\ sock[c.cur] # "stuck"
    /\ inbox' = IF failed THEN inbox
                ELSE [inbox EXCEPT ![c.cur] = Append(inbox[c.cur], BroadcastMessage(i))]
    /\ calls' = [calls EXCEPT ![i] = b.call]
    /\ active_connections' = b.entries
    /\ UNCHANGED <<storeVars, now, wsVars, buffer>>

(***************************************************************************)
(* list_agents.                                                            *)
(***************************************************************************)
RECURSIVE SeqOfSet(_)
SeqOfSet(S) ==
    IF S = {} THEN <<>>
    ELSE LET x == CHOOSE y \in S : TRUE IN <<x>> \o SeqOfSet(S \ {x})

\* metrics = json.loads(metrics_data) if metrics_data else {}, and the 24h
\* PnL taken from it as AgentPanelState(pnl24h: float) accepts it
panel_pnl(metrics_data) ==
    IF metrics_data = Absent THEN Scalar("0.0")
    ELSE IF ~IsDict(metrics_data) THEN Raise
    ELSE LET custom == Get(metrics_data, "custom", Absent)
             pnl == IF Has(custom, "pnl_24h") THEN custom.kids["pnl_24h"]
                    ELSE IF custom.kind = "scalar" /\ custom.val \in Numbers THEN Raise
                    ELSE Get(metrics_data, "pnl", Scalar("0.0"))
         IN IF pnl.kind = "scalar" /\ pnl.val \in Numbers THEN pnl ELSE Raise

\* last_signal_time = int(last_signal) if last_signal else 0
last_signal_time(last) ==
    IF last = Absent \/ last.val = "" THEN Scalar("0")
    ELSE IF last.kind = "scalar" /\ last.val \in IntLiterals THEN last
    ELSE Raise

\* what the handler makes of one registration once its documents are read;
\* status "raise" when an exception was raised on the way
panel_view(agent_json, agent_id, raw, metrics_data, last) ==
    LET shown == IF raw = "" THEN "unknown" ELSE raw
        pnl == panel_pnl(metrics_data)
        signal == last_signal_time(last)
        status == IF pnl = Raise \/ signal = Raise THEN "raise"
                  ELSE panel_status(agent_json, shown)
    IN [agentId |-> agent_id, status |-> status, actions |-> panel_actions(status),
        state |-> raw, agent_json |-> agent_json, pnl24h |-> pnl, lastSignal |-> signal]

\* registrations = await r.keys("agent:*:registration")
list_agents_keys(i) ==
    LET c == calls[i]
        found == SeqOfSet({a \in Agents : registration[a] # Absent})
    IN
    /\ c.op = "list" /\ c.pc = "keys"
    /\ calls' = [calls EXCEPT ![i] =
          IF found = <<>> THEN Finish(c, "ok")
          ELSE [c EXCEPT !.keys = found, !.pc = "get"]]
    /\ UNCHANGED <<storeVars, now, active_connections, wsVars, buffer, inbox>>

\* a variant with the try around the loop: an exception ends the listing
next_key_abort(c) == Finish(c, "InternalError")

\* the body of the loop is over for this key, by its end, by the falsy
\* agent_data or by the except clause: on to the next key, or return agents
next_key(c) ==
    IF Tail(c.keys) = <<>> THEN Finish([c EXCEPT !.keys = <<>>], "ok")
    ELSE [c EXCEPT !.keys = Tail(c.keys), !.pc = "get"]

\* agent_data = await r.get(reg_key); agent_json = json.loads(agent_data);
\* agent_json.get("agentId", "unknown").  A registration that is gone is
\* skipped, and so is one that raises: no JSON, or no dict
list_agents_get(i) ==
    LET c == calls[i]
        agent_data == registration[Head(c.keys)]
    IN
    /\ c.op = "list" /\ c.pc = "get"
    /\ calls' = [calls EXCEPT ![i] =
          IF IsDict(agent_data)
          THEN [c EXCEPT !.agent_data = agent_data, !.pc = "get_state"]
          ELSE next_key(c)]
    /\ UNCHANGED <<storeVars, now, active_connections, wsVars, buffer, inbox>>

\* state_data = await r.get(f"agent:{agent_id}:state"), then the metrics and
\* the last signal (documents only the agents write, read here in one step),
\* the status, the actions and the panel; an exception drops this agent
list_agents_get_state(i) ==
    LET c == calls[i]
        agent_id == Get(c.agent_data, "agentId", Scalar("unknown")).val
        known == agent_id \in Agents
        raw == IF known THEN state[agent_id] ELSE ""
        view == panel_view(c.agent_data, agent_id, raw,
                           IF known THEN metrics[agent_id] ELSE Absent,
                           IF known THEN last_signal[agent_id] ELSE Absent)
    IN
    /\ c.op = "list" /\ c.pc = "get_state"
    /\ calls' = [calls EXCEPT ![i] =
          IF view.status = "raise"
          THEN next_key([c EXCEPT !.state = raw])
          ELSE IF Tail(c.keys) = <<>>
          THEN Finish([c EXCEPT !.agents = Append(c.agents, view), !.keys = <<>>,
                                !.state = raw], "ok")
          ELSE [c EXCEPT !.agents = Append(c.agents, view), !.keys = Tail(c.keys),
                         !.state = raw, !.pc = "get"]]
    /\ UNCHANGED <<storeVars, now, active_connections, wsVars, buffer, inbox>>

\* time passes
Tick ==
    /\ now < MaxClock
    /\ now' = now + 1
    /\ UNCHANGED <<storeVars, calls, active_connections, wsVars, buffer, inbox>>

(***************************************************************************)
(* Auth routes, and requests that carry an Authorization header.           *)
(***************************************************************************)
\* the instants the clock is looked at: around the end of a token's lifetime
Instants == {0, 1, ACCESS_TOKEN_EXPIRE_MINUTES - 1, ACCESS_TOKEN_EXPIRE_MINUTES,
             ACCESS_TOKEN_EXPIRE_MINUTES + 1}

Elapse ==
    /\ \E t \in Instants : t > now /\ now' = t
    /\ UNCHANGED <<storeVars, calls, active_connections, wsVars, buffer, inbox>>

\* login_for_access_token(username, password): POST /auth/token
login_for_access_token(i, username, password) ==
    /\ calls[i].pc = "idle"
    /\ i > 1 => calls[i - 1].pc # "idle"
    /\ calls' = [calls EXCEPT ![i] =
          LET c == [IdleCall EXCEPT !.op = "issueToken",
                        !.credentials = <<username, password>>,
                        !.started = now, !.ts = now]
          IN IF credentials_ok(username, password)
             THEN Finish([c EXCEPT !.token = create_access_token(username, now)], "ok")
             ELSE Finish(c, "InvalidCredentials")]
    /\ UNCHANGED <<storeVars, now, active_connections, wsVars, buffer, inbox>>

\* the tokens the gate has handed out so far
IssuedTokens == {calls[j].token : j \in {k \in CallIds :
                     calls[k].op = "issueToken" /\ calls[k].result = "ok"}}

\* what a client can put in a header: a token it was given, the same with its
\* expiry moved on, the same signed with a key of its own
PresentableTokens ==
    IssuedTokens
    \cup {[t EXCEPT !.exp = t.exp + 1] : t \in IssuedTokens}
    \cup {jwt_encode(t.sub, t.exp, "guess") : t \in IssuedTokens}
    \cup {jwt_encode("admin", now + ACCESS_TOKEN_EXPIRE_MINUTES, "guess")}

Headers ==
    {Header(2, scheme, t) : scheme \in {"Bearer", "bearer", "Basic"}, t \in PresentableTokens}
    \cup {Header(1, "Bearer", NoToken), NoHeader}

\* verify_token(authorization), as a route that depends on it would run it
verify_token_route(i, authorization) ==
    /\ calls[i].pc = "idle"
    /\ i > 1 => calls[i - 1].pc # "idle"
    /\ calls' = [calls EXCEPT ![i] =
          Finish([IdleCall EXCEPT !.op = "verifyToken", !.authorization = authorization,
                      !.started = now, !.ts = now],
                 verify_token(authorization, now))]
    /\ UNCHANGED <<storeVars, now, active_connections, wsVars, buffer, inbox>>

\* a request to a mutating route with an Authorization header: the route
\* declares no dependency on verify_token, the header is not looked at
CallWith(i, op, a, config, authorization) ==
    /\ calls[i].pc = "idle"
    /\ i > 1 => calls[i - 1].pc # "idle"
    /\ calls' = [calls EXCEPT ![i] = [IdleCall EXCEPT !.op = op, !.agentId = a,
                    !.config = config, !.pc = FirstAwait(op), !.started = now,
                    !.authorization = authorization]]
    /\ UNCHANGED <<storeVars, now, active_connections, wsVars, buffer, inbox>>

(***************************************************************************)
(* Realtime broadcaster: websocket_agent_events, one handler a connection. *)
(***************************************************************************)
\* client_id = str(uuid.uuid4()): a fresh identifier for every connection
client_id(c) == ToString(c)

\* a variant that names the first connection of the registry
Established_first(c) ==
    Msg("connection_established", "", 0, Scalar(ToString(1)), 0, "local")

\* {"type": "connection_established", "clientId": client_id}
Established(c) == Msg("connection_established", "", 0, Scalar(client_id(c)), 0, "local")

\* await websocket.accept() ends; client_id = str(uuid.uuid4());
\* active_connections[client_id] = websocket; pubsub.subscribe is awaited
ws_accept(c) ==
    /\ wsPc[c] = "init"
    /\ c > 1 => wsPc[c - 1] # "init"
    /\ active_connections' = Append(active_connections, c)
    /\ wsPc' = [wsPc EXCEPT ![c] = "subscribing"]
    /\ UNCHANGED <<storeVars, now, calls, sock, subscribed, buffer, relay, inbox>>

\* await pubsub.subscribe("agent_events") ends; the greeting is being sent
ws_subscribe(c) ==
    /\ wsPc[c] = "subscribing"
    /\ subscribed' = [subscribed EXCEPT ![c] = TRUE]
    /\ wsPc' = [wsPc EXCEPT ![c] = "greeting"]
    /\ UNCHANGED <<storeVars, now, calls, active_connections, sock, buffer, relay, inbox>>

\* the except clauses: active_connections.pop(client_id, None);
\* await pubsub.unsubscribe("agent_events"); await redis_client.close()
ws_closed(c) ==
    /\ active_connections' = Popped(active_connections, {c})
    /\ subscribed' = [subscribed EXCEPT ![c] = FALSE]
    /\ wsPc' = [wsPc EXCEPT ![c] = "closed"]

\* await websocket.send_json({"type": "connection_established", ...}) ends:
\* the relay task is created and the handler waits in receive_text, or the
\* send raised and the handler leaves through its except clause
ws_greet(c) ==
    /\ wsPc[c] = "greeting"
    /\ sock[c] # "stuck"
    /\ IF sock[c] = "ok"
       THEN /\ inbox' = [inbox EXCEPT ![c] = Append(inbox[c], Established(c))]
            /\ relay' = [relay EXCEPT ![c] = "running"]
            /\ wsPc' = [wsPc EXCEPT ![c] = "open"]
            /\ UNCHANGED <<active_connections, subscribed>>
       ELSE /\ ws_closed(c)
            /\ UNCHANGED <<inbox, relay>>
    /\ UNCHANGED <<storeVars, now, calls, sock, buffer>>

\* await websocket.receive_text() raises WebSocketDisconnect
ws_disconnect(c) ==
    /\ wsPc[c] = "open"
    /\ sock[c] = "broken"
    /\ ws_closed(c)
    /\ UNCHANGED <<storeVars, now, calls, sock, buffer, relay, inbox>>

\* process_redis_messages: one message of pubsub.listen() is sent on; a send
\* that raises is answered by a second send, which raises out of the task
process_redis_messages(c) ==
    /\ relay[c] = "running"
    /\ buffer[c] # <<>>
    /\ sock[c] # "stuck"
    /\ IF sock[c] = "ok"
       THEN /\ inbox' = [inbox EXCEPT ![c] = Append(inbox[c], Head(buffer[c]))]
            /\ buffer' = [buffer EXCEPT ![c] = Tail(buffer[c])]
            /\ UNCHANGED relay
       ELSE /\ relay' = [relay EXCEPT ![c] = "dead"]
            /\ UNCHANGED <<inbox, buffer>>
    /\ UNCHANGED <<storeVars, now, calls, active_connections, wsPc, sock, subscribed>>

\* the observer stops reading its socket: sends to it no longer complete
client_stalls(c) ==
    /\ wsPc[c] \notin {"init", "closed"}
    /\ sock[c] = "ok"
    /\ sock' = [sock EXCEPT ![c] = "stuck"]
    /\ UNCHANGED <<storeVars, now, calls, active_connections, wsPc, subscribed,
                   buffer, relay, inbox>>

\* the observer closes its end, or the connection is lost
client_closes(c) ==
    /\ wsPc[c] \notin {"init", "closed"}
    /\ sock[c] # "broken"
    /\ sock' = [sock EXCEPT ![c] = "broken"]
    /\ UNCHANGED <<storeVars, now, calls, active_connections, wsPc, subscribed,
                   buffer, relay, inbox>>

(***************************************************************************)
(* The specification.                                                      *)
(***************************************************************************)
Requests ==
    {<<"list", "", NoKids>>}
    \cup {<<op, "a1", NoKids>> : op \in Ops \ {"list", "injectConfig"}}
    \cup {<<"injectConfig", "a1", config>> : config \in Patches}

Request(i, requests) == \E r \in requests : Call(i, r[1], r[2], r[3])

Reading(i) ==
    \/ get_agent_config(i)
    \/ list_agents_keys(i)
    \/ list_agents_get(i)
    \/ list_agents_get_state(i)

Handler(i) ==
    \/ lifecycle_exists(i)
    \/ lifecycle_publish_event(i)
    \/ lifecycle_publish_command(i)
    \/ lifecycle_set_state(i)
    \/ lifecycle_broadcast(i)
    \/ inject_config_get(i)
    \/ inject_config_publish_event(i)
    \/ inject_config_publish_command(i)
    \/ inject_config_set(i)
    \/ promote_canary_get(i)
    \/ promote_canary_set(i)
    \/ promote_canary_publish_event(i)
    \/ promote_canary_publish_command(i)

Mutation(i) ==
    \/ Handler(i)
    \/ broadcast_send(i)

\* an observer that connects and keeps reading
Connect(c) ==
    \/ ws_accept(c)
    \/ ws_subscribe(c)
    \/ ws_greet(c)
    \/ process_redis_messages(c)

\* what an observer's end may do besides
Client(c) ==
    \/ ws_disconnect(c)
    \/ client_stalls(c)
    \/ client_closes(c)

Next ==
    \/ \E i \in CallIds : Request(i, Requests) \/ Reading(i) \/ Mutation(i)
    \/ \E c \in 1..ApiConns : Connect(c)

\* Control API calls, run concurrently, with observers that stay connected
Spec == Init /\ [][Next]_vars

\* The fan-out: observers that come, stall and go while a canary agent is
\* paused, reconfigured or promoted.
FanoutRequests ==
    {<<op, "a1", NoKids>> : op \in Lifecycle \cup {"promoteCanary"}}
    \cup {<<"injectConfig", "a1", patchNested>>}

FanoutInit ==
    /\ registration = [a \in Agents |-> Reg(a, cfgCanary)]
    /\ state = [a \in Agents |-> IF a = "a2" THEN "disabled" ELSE ""]
    /\ Reported
    /\ Quiet

FanoutNext ==
    \/ \E i \in 1..FanoutCalls : Request(i, FanoutRequests) \/ Mutation(i)
    \/ \E c \in 1..FanoutConns : Connect(c) \/ Client(c)

FanoutSpec == FanoutInit /\ [][FanoutNext]_vars

\* the same with the clock running
FanoutClock == FanoutInit /\ [][FanoutNext \/ Tick]_vars

\* The event loop runs every task whose await has ended, and Redis answers:
\* a handler, a connection's handler and its relay task each go on.  What a
\* client does is up to the client.
FanoutFair ==
    /\ FanoutSpec
    /\ \A i \in CallIds : WF_vars(Mutation(i))
    /\ \A c \in Conns : WF_vars(ws_subscribe(c) \/ ws_greet(c) \/ ws_disconnect(c))
    /\ \A c \in Conns : WF_vars(process_redis_messages(c))

Login(i) ==
    \E username \in {"admin", "root"}, password \in {ADMIN_PASSWORD, "guess"} :
        login_for_access_token(i, username, password)

\* Observers that come and go, none of them stalling, while an agent is
\* paused.
ChurnNext ==
    \/ \E i \in 1..FanoutCalls :
          \/ Call(i, "pause", "a1", NoKids)
          \/ lifecycle_exists(i)
          \/ lifecycle_publish_event(i)
          \/ lifecycle_publish_command(i)
          \/ lifecycle_set_state(i)
          \/ lifecycle_broadcast(i)
          \/ broadcast_send(i)
    \/ \E c \in Conns :
          \/ Connect(c)
          \/ ws_disconnect(c)
          \/ client_closes(c)

ChurnSpec == FanoutInit /\ [][ChurnNext]_vars

\* Listings of a Store in which the agents have left documents of any
\* kind: no JSON, JSON of the wrong shape, numbers that are none.
cfgBroken == ("executionConfig" :> Scalar("9"))

ListInit ==
    /\ registration \in [Agents -> UNION {InitRegs(a) : a \in Agents}
                                    \cup {Malformed, List("[]")}
                                    \cup {Reg(a, cfgBroken) : a \in Agents}]
    /\ \A a \in Agents :
          registration[a] \in InitRegs(a) \cup {Malformed, List("[]"), Reg(a, cfgBroken)}
    /\ state = [a \in Agents |-> IF a = "a2" THEN "disabled" ELSE ""]
    /\ metrics \in [Agents -> {Absent, MetricsPlain, MetricsCustom, MetricsText,
                               Malformed, List("[]")}]
    /\ last_signal \in [Agents -> {Absent, Scalar("17"), Scalar("soon")}]
    /\ Quiet

ListNext ==
    \E i \in 1..FanoutCalls :
        \/ Call(i, "list", "", NoKids)
        \/ list_agents_keys(i)
        \/ list_agents_get(i)
        \/ list_agents_get_state(i)

ListSpec == ListInit /\ [][ListNext]_vars

\* The gate by itself: tokens are issued, time passes, credentials are
\* presented to verify_token.
GateNext ==
    \/ \E i \in CallIds : Login(i)
    \/ \E i \in CallIds : \E authorization \in Headers : verify_token_route(i, authorization)
    \/ Elapse

GateSpec == FanoutInit /\ [][GateNext]_vars

\* The gate and the mutating routes: requests present whatever credential
\* their senders hold.  No observer is connected.
AuthNext ==
    \/ \E i \in CallIds : Login(i)
    \/ \E i \in CallIds : \E authorization \in Headers : \E r \in FanoutRequests :
          CallWith(i, r[1], r[2], r[3], authorization)
    \/ \E i \in CallIds : Handler(i)

AuthSpec == FanoutInit /\ [][AuthNext]_vars

\* Control API calls on either agent, run concurrently, nobody listening.
FrameRequests ==
    {<<op, a, NoKids>> : op \in Ops \ {"list", "injectConfig"}, a \in Agents}
    \cup {<<"injectConfig", a, config>> : config \in {patchNested, patchCanary}, a \in Agents}

FrameNext ==
    \E i \in CallIds : Request(i, FrameRequests) \/ get_agent_config(i) \/ Handler(i)

FrameSpec == Init /\ [][FrameNext]_vars

\* Control API calls one after the other: a call is accepted only when no
\* other call is under way.
SeqRequests ==
    {<<"list", "", NoKids>>}
    \cup {<<op, "a1", NoKids>> : op \in Lifecycle \cup {"promoteCanary"}}
    \cup {<<"injectConfig", "a1", patchCanary>>}

SeqCall(i) ==
    /\ \A j \in CallIds \ {i} : calls[j].pc \in {"idle", "done"}
    /\ Request(i, SeqRequests)

SeqNext ==
    \E i \in CallIds :
        \/ SeqCall(i)
        \/ Handler(i)
        \/ list_agents_keys(i)
        \/ list_agents_get(i)
        \/ list_agents_get_state(i)

SeqSpec == Init /\ [][SeqNext]_vars

(***************************************************************************)
(* Properties.                                                             *)
(***************************************************************************)
Range(q) == {q[k] : k \in DOMAIN q}

\* the effects of kind k and name n among a call's effects
Effects(i, k, n) == {j \in DOMAIN calls[i].fx : calls[i].fx[j].k = k /\ calls[i].fx[j].name = n}

\* the panels a list() call has assembled
Panels(i) == Range(calls[i].agents)

\* executionConfig has mode == "canary" or canaryMode == true
SaysCanary(agent_json) ==
    /\ Has(agent_json, "config")
    /\ Has(agent_json.kids["config"], "executionConfig")
    /\ LET e == agent_json.kids["config"].kids["executionConfig"] IN
       \/ Has(e, "mode") /\ e.kids["mode"] = Scalar("canary")
       \/ Has(e, "canaryMode") /\ e.kids["canaryMode"] = Scalar("true")

\* list_agents_get_state of call i is the step taken
ListsOne(i) ==
    /\ calls[i].op = "list" /\ calls[i].pc = "get_state"
    /\ calls'[i] # calls[i]

\* C1: every panel of list() for an agent whose raw state is paused or
\* disabled shows status paused and the actions resume, restart, whatever its
\* executionConfig says.
C1_PausedShownPaused ==
    \A i \in CallIds : \A v \in Panels(i) :
        v.state \in {"paused", "disabled"} =>
            /\ v.status = "paused"
            /\ Range(v.actions) = {"resume", "restart"}

\* C2: when list() reads the documents of an agent whose executionConfig
\* says canary and whose raw state is neither paused nor disabled, it adds a
\* panel for it with status canary and the actions promote, pause, restart.
C2_CanaryShownCanary ==
    [][\A i \in CallIds :
         (/\ ListsOne(i)
          /\ SaysCanary(calls[i].agent_data)
          /\ calls'[i].state \notin {"paused", "disabled"})
         => /\ Len(calls'[i].agents) = Len(calls[i].agents) + 1
            /\ LET v == calls'[i].agents[Len(calls'[i].agents)] IN
               /\ v.agentId = calls[i].agent_data.kids["agentId"].val
               /\ v.status = "canary"
               /\ Len(v.actions) = 3
               /\ Range(v.actions) = {"promote", "pause", "restart"}]_vars

C2_Witness ==
    \E i \in CallIds : \E v \in Panels(i) :
        /\ calls[i].pc = "done"
        /\ v.agentId = "a1" /\ v.state = "" /\ v.status = "canary"
        /\ Has(exec_config_of(v.agent_json), "canaryMode")

\* C3: pause, resume, restart, getConfig, injectConfig and promoteCanary on an
\* agent without registration return AgentNotFound and publish nothing: no
\* event, no command, nothing handed to the fan-out, nothing in any
\* observer's pubsub or inbox.
C3_NotFoundPublishesNothing ==
    \A i \in CallIds :
        (calls[i].op \in Ops \ {"list"} /\ registration[calls[i].agentId] = Absent)
        => /\ calls[i].pc = "done" => calls[i].result = "AgentNotFound"
           /\ calls[i].fx = <<>>
           /\ \A c \in Conns : \A m \in Range(buffer[c]) \cup Range(inbox[c]) : m.call # i

C3_Witness ==
    /\ wsPc[1] = "open"
    /\ \E i, j \in CallIds :
        /\ calls[i].op = "pause" /\ calls[i].result = "AgentNotFound"
        /\ calls[j].op = "injectConfig" /\ calls[j].result = "AgentNotFound"

\* the registration a successful promoteCanary call has persisted
Persisted(i) == calls[i].fx[1].val

\* promote_canary_get of call j is the step taken
ChecksCanary(j) ==
    /\ calls[j].op = "promoteCanary" /\ calls[j].pc = "get"
    /\ calls'[j] # calls[j]

\* C4: a promoteCanary that finds the registration as a successful
\* promoteCanary of the same agent has left it fails with NotInCanary.
C4_SecondPromoteFails ==
    [][\A i, j \in CallIds :
         (/\ ChecksCanary(j)
          /\ calls[i].op = "promoteCanary" /\ calls[i].result = "ok"
          /\ calls[i].agentId = calls[j].agentId
          /\ registration[calls[j].agentId] = Persisted(i))
         => calls'[j].result = "NotInCanary"]_vars

C4_Witness ==
    \E i, j \in CallIds :
        /\ calls[i].op = "promoteCanary" /\ calls[i].result = "ok"
        /\ calls[j].op = "promoteCanary" /\ calls[j].result = "NotInCanary"
        /\ registration["a1"] = Persisted(i)
        /\ exec_config_of(calls[i].agent_data) = ExecLiveFlag

\* the effects of kind k and name n that a call published at or after its start
Timely(i, k, n) == {j \in Effects(i, k, n) : calls[i].fx[j].ts >= calls[i].started}

\* C5: a successful pause, resume, restart or promoteCanary has put exactly
\* one agent_status_changed on the shared topic (promoteCanary exactly one
\* canary_promoted besides), none stamped earlier than the call's start.
C5_StatusChangedOnTopic ==
    \A i \in CallIds :
        (calls[i].op \in Lifecycle \cup {"promoteCanary"} /\ calls[i].result = "ok")
        => /\ Cardinality(Effects(i, "event", "agent_status_changed")) = 1
           /\ Timely(i, "event", "agent_status_changed")
                  = Effects(i, "event", "agent_status_changed")
           /\ calls[i].op = "promoteCanary" =>
                  /\ Cardinality(Effects(i, "event", "canary_promoted")) = 1
                  /\ Timely(i, "event", "canary_promoted")
                         = Effects(i, "event", "canary_promoted")

\* observer c is registered and reads its socket
Healthy(c) ==
    /\ sock[c] = "ok"
    /\ \E j \in DOMAIN active_connections : active_connections[j] = c

\* the fan-out of call i is under way and has not reached observer c yet
Awaits(i, c) ==
    /\ calls[i].pc = "send"
    /\ \E j \in DOMAIN active_connections :
           active_connections[j] = c /\ j > calls[i].pos

\* the message call i handed to the fan-out has reached observer c
Reached(i, c) == \E m \in Range(inbox[c]) : m.call = i /\ m.via = "direct"

\* the event call i published on agent_events waits in c's pubsub
Queued(i, c) == \E m \in Range(buffer[c]) : m.call = i

Relayed(i, c) == \E m \in Range(inbox[c]) : m.call = i /\ m.via = "relay"

\* C6: whatever the other observers do with their sockets, an observer that
\* is registered and keeps reading gets every event: the one that waits in
\* its pubsub, and the one a fan-out under way has yet to send to it (unless
\* that fan-out is aborted by a change of the registry).
C6_StalledObserverIsolated ==
    \A i \in CallIds : \A c \in Conns :
        /\ (Queued(i, c) /\ Healthy(c)) ~> (Relayed(i, c) \/ ~Healthy(c))
        /\ (Awaits(i, c) /\ Healthy(c))
               ~> (Reached(i, c) \/ ~Healthy(c) \/ calls[i].result = "InternalError")

\* the half of it that goes through each connection's own relay task
RelayIsolated ==
    \A i \in CallIds : \A c \in Conns :
        (Queued(i, c) /\ Healthy(c)) ~> (Relayed(i, c) \/ ~Healthy(c))

\* r is the deep-merge of patch u into d: a key of u whose values in d and u
\* are both documents is merged in turn, any other key of u takes u's value,
\* and a key u does not name keeps d's value.
RECURSIVE IsDeepMerge(_, _, _)
IsDeepMerge(d, u, r) ==
    /\ DOMAIN r = DOMAIN d \cup DOMAIN u
    /\ \A k \in DOMAIN r :
          IF k \notin DOMAIN u THEN r[k] = d[k]
          ELSE IF k \in DOMAIN d /\ d[k].kind = "doc" /\ u[k].kind = "doc"
          THEN r[k].kind = "doc" /\ IsDeepMerge(d[k].kids, u[k].kids, r[k].kids)
          ELSE r[k] = u[k]

\* the config of a registration, empty when it has none
ConfigOf(agent_json) ==
    IF "config" \in DOMAIN agent_json.kids THEN agent_json.kids["config"].kids ELSE NoKids

\* inject_config_set of call i is the step taken
StoresConfig(i) ==
    /\ calls[i].op = "injectConfig" /\ calls[i].pc = "set"
    /\ calls'[i] # calls[i]

\* C7: the config a successful injectConfig stores is the deep-merge of its
\* patch into the config of the registration it read.
C7_StoredConfigIsDeepMerge ==
    [][\A i \in CallIds :
         StoresConfig(i) =>
             IsDeepMerge(ConfigOf(calls[i].agent_data), calls[i].config,
                         ConfigOf(registration'[calls[i].agentId]))]_vars

C7_Witness ==
    \E i \in CallIds :
        /\ calls[i].op = "injectConfig" /\ calls[i].result = "ok"
        /\ calls[i].config = patchNested
        /\ ConfigOf(calls[i].agent_data) = cfgPlain
        /\ ConfigOf(registration["a1"])
               = ("a" :> Doc(("b" :> Scalar("5")) @@ ("c" :> List("[2]"))))

\* what the contract names for pause, resume and restart
Contract(op) ==
    CASE op = "pause"   -> [event |-> "pause_requested", topic |-> "pause", state |-> "paused"]
      [] op = "resume"  -> [event |-> "resume_requested", topic |-> "resume", state |-> "running"]
      [] op = "restart" -> [event |-> "restart_requested", topic |-> "restart",
                            state |-> "initializing"]

Shape(e) == <<e.k, e.name, e.agent, e.val>>

\* what call i has done so far is the contract's sequence: once it has
\* returned success all four steps in order, and at any time no state write
\* without a command publish before it
InContractOrder(i) ==
    LET fx == calls[i].fx
        a == calls[i].agentId
        want == Contract(calls[i].op)
    IN /\ calls[i].result = "ok" =>
             [k \in DOMAIN fx |-> Shape(fx[k])] =
                 << <<"event", want.event, a, Absent>>,
                    <<"cmd", want.topic, a, Scalar("")>>,
                    <<"set", "state", a, Scalar(want.state)>>,
                    <<"ws", "agent_status_changed", a, Scalar(want.state)>> >>
       /\ \A k \in DOMAIN fx : fx[k].k = "set" => \E j \in 1..(k - 1) : fx[j].k = "cmd"

\* lifecycle_set_state of call i is the step taken
WritesState(i) ==
    /\ calls[i].op \in Lifecycle /\ calls[i].pc = "set"
    /\ calls'[i] # calls[i]

\* C8: a successful pause, resume or restart has published its *_requested
\* event, then one empty payload on the agent's command topic, then written
\* the raw state paused, running or initializing to the Store, then emitted
\* agent_status_changed with that state; and in no call does the state write
\* come before the command publish.
C8_LifecycleOrder ==
    [][\A i \in CallIds :
         calls'[i].op \in Lifecycle =>
             /\ InContractOrder(i)'
             /\ WritesState(i) =>
                    state'[calls[i].agentId] = Contract(calls[i].op).state]_vars

C8_Witness ==
    /\ \E i \in CallIds : calls[i].op = "restart" /\ calls[i].result = "ok"
    /\ state["a1"] = "initializing"
    /\ \E m \in Range(inbox[1]) :
           m.name = "agent_status_changed" /\ m.val = Scalar("initializing")

\* the registration has an executionConfig sub-document
HasExecDocument(agent_json) ==
    /\ Has(agent_json, "config")
    /\ Has(agent_json.kids["config"], "executionConfig")
    /\ agent_json.kids["config"].kids["executionConfig"].kind = "doc"

\* C9: promoteCanary answers AgentNotFound without registration, else
\* NoExecutionConfig without executionConfig sub-document, else NotInCanary
\* when the executionConfig does not say canary, and goes on to promote the
\* agent in every other case.
C9_PromotePreconditions ==
    [][\A i \in CallIds :
         ChecksCanary(i) =>
             LET agent_json == registration[calls[i].agentId] IN
             IF agent_json = Absent THEN calls'[i].result = "AgentNotFound"
             ELSE IF ~HasExecDocument(agent_json)
                  THEN calls'[i].result = "NoExecutionConfig"
             ELSE IF ~SaysCanary(agent_json) THEN calls'[i].result = "NotInCanary"
             ELSE calls'[i].pc = "set"]_vars

\* C10: a successful promoteCanary has persisted the registration with mode
\* live and canaryMode false, then published canary_promoted, then the
\* persisted executionConfig on the agent's inject_config topic, then emitted
\* agent_status_changed with status running.
C10_PromoteOrder ==
    \A i \in CallIds :
        (calls[i].op = "promoteCanary" /\ calls[i].result = "ok") =>
            LET fx == calls[i].fx
                a == calls[i].agentId
            IN /\ [k \in DOMAIN fx |-> <<fx[k].k, fx[k].name, fx[k].agent>>] =
                      << <<"set", "registration", a>>,
                         <<"event", "canary_promoted", a>>,
                         <<"cmd", "inject_config", a>>,
                         <<"ws", "agent_status_changed", a>> >>
               /\ HasExecDocument(fx[1].val)
               /\ exec_config_of(fx[1].val).kids["mode"] = Scalar("live")
               /\ exec_config_of(fx[1].val).kids["canaryMode"] = Scalar("false")
               /\ fx[3].val = Doc("executionConfig" :> exec_config_of(fx[1].val))
               /\ fx[4].val = Scalar("running")

C10_Witness ==
    \E i \in CallIds :
        /\ calls[i].op = "promoteCanary" /\ calls[i].result = "ok"
        /\ registration["a1"] = Persisted(i)
        /\ exec_config_of(registration["a1"])
               = Doc(("mode" :> Scalar("live")) @@ ("canaryMode" :> Scalar("false"))
                     @@ ("size" :> Scalar("1")))
        /\ \E m \in Range(inbox[1]) : m.name = "canary_promoted"
        /\ \E m \in Range(inbox[1]) : m.name = "agent_status_changed" /\ m.call = i

\* C11: an injectConfig call announces its patch, by config_update_requested
\* on the shared topic or by the raw patch on agent:{id}:inject_config, only
\* once it has written the merged registration to the Store; and a successful
\* call has done all of it, agent_config_updated carrying no payload.
C11_StoredBeforeAnnounced ==
    \A i \in CallIds :
        calls[i].op = "injectConfig" =>
            LET fx == calls[i].fx IN
            /\ \A k \in DOMAIN fx :
                   fx[k].k \in {"event", "cmd"} =>
                       \E j \in 1..(k - 1) : fx[j].k = "set" /\ fx[j].name = "registration"
            /\ calls[i].result = "ok" =>
                   /\ \E k \in Effects(i, "event", "config_update_requested") :
                          fx[k].val = Doc(calls[i].config)
                   /\ \E k \in Effects(i, "cmd", "inject_config") :
                          fx[k].val = Doc(calls[i].config)
                   /\ \E k \in DOMAIN fx :
                          fx[k].name = "agent_config_updated" /\ fx[k].val = Absent

Mutating == Lifecycle \cup {"injectConfig", "promoteCanary"}

\* call j issued the token that call i presents as a bearer credential, less
\* than the token lifetime before call i arrived
Vouches(j, i) ==
    /\ calls[j].op = "issueToken" /\ calls[j].result = "ok"
    /\ calls[i].authorization.words = 2
    /\ calls[i].authorization.scheme \in {"Bearer", "bearer", "BEARER"}
    /\ calls[i].authorization.token = calls[j].token
    /\ calls[i].started - calls[j].started < ACCESS_TOKEN_EXPIRE_MINUTES

\* C12: a mutating call that has written to the Store or published anything
\* presented a credential that verifyToken accepts.
C12_MutationsVerified ==
    \A i \in CallIds :
        (calls[i].op \in Mutating /\ calls[i].fx # <<>>) =>
            \E j \in CallIds : Vouches(j, i)

\* C15: issueToken hands out a token exactly for the configured credential
\* pair and answers InvalidCredentials otherwise; verifyToken accepts exactly
\* a bearer credential whose token the gate issued (no other carries a valid
\* signature) less than 24 hours before, and answers unauthorized otherwise.
C15_AuthGate ==
    \A i \in CallIds :
        /\ (calls[i].op = "issueToken" /\ calls[i].pc = "done") =>
               IF calls[i].credentials = <<"admin", ADMIN_PASSWORD>>
               THEN /\ calls[i].result = "ok"
                    /\ calls[i].token # NoToken
               ELSE /\ calls[i].result = "InvalidCredentials"
                    /\ calls[i].token = NoToken
        /\ (calls[i].op = "verifyToken" /\ calls[i].pc = "done") =>
               IF \E j \in CallIds : Vouches(j, i)
               THEN calls[i].result = "ok"
               ELSE calls[i].result = "Unauthorized"

\* a token is accepted one minute before its 24 hours are over, and the
\* gate has turned down a wrong password
C15_Witness ==
    \E i, j \in CallIds :
        /\ calls[j].op = "issueToken" /\ calls[j].result = "ok" /\ calls[j].started = 1
        /\ calls[i].op = "verifyToken" /\ calls[i].result = "ok"
        /\ calls[i].authorization.token = calls[j].token
        /\ calls[i].started = ACCESS_TOKEN_EXPIRE_MINUTES

\* C13: the first message an observer receives is connection_established;
\* no event reaches it before.
C13_GreetingFirst ==
    \A c \in Conns :
        inbox[c] # <<>> => inbox[c][1].name = "connection_established"

\* C16: however many observers are connected, the broadcaster holds at most
\* one subscription to agent_events.
C16_OneSubscription ==
    Cardinality({c \in Conns : subscribed[c]}) <= 1

\* the connection is open: accepted and not yet closed
Connected(c) == wsPc[c] \notin {"init", "closed"}

\* observer c receives a message in this step
Receives(c) == Len(inbox'[c]) > Len(inbox[c])

Received(c) == inbox'[c][Len(inbox'[c])]

\* C14: an event is queued for an observer only while the observer is
\* connected, and what an observer receives it receives while connected;
\* an event handed to the fan-out reaches only observers that were
\* registered when it was handed over.
C14_OnlyWhileConnected ==
    [][\A c \in Conns :
         /\ Len(buffer'[c]) > Len(buffer[c]) => Connected(c)
         /\ Receives(c) =>
                /\ Connected(c)
                /\ Received(c).via = "direct" => c \in calls[Received(c).call].targets]_vars

\* a send of call i's fan-out ends in this step
SendEnds(i) == calls[i].pc = "send" /\ calls'[i] # calls[i]

\* the registry holds who it held when call i's event was handed over
Undisturbed(i) == Registered(active_connections) = calls[i].targets

\* the targets of call i's fan-out whose turn is still to come
Pending(i) ==
    {active_connections[j] : j \in {k \in DOMAIN active_connections :
                                       k > calls[i].pos /\ active_connections[k] # 0}}

FannedOut(i) == \E k \in DOMAIN calls[i].fx : calls[i].fx[k].k = "ws"

\* C18: whatever connects and disconnects meanwhile, a fan-out is not
\* aborted, and when it is over every connection that was registered when
\* it began and still is has been sent the event.
C18_FanoutTolerant ==
    \A i \in CallIds :
        (FannedOut(i) /\ calls[i].pc = "done") =>
            /\ calls[i].result = "ok"
            /\ \A c \in calls[i].targets \cap Registered(active_connections) :
                   Reached(i, c) \/ c \in calls[i].disconnected

\* the relay task of observer c ends a send in this step
RelaySends(c) ==
    /\ relay[c] = "running"
    /\ relay'[c] # relay[c] \/ Len(buffer'[c]) < Len(buffer[c])

\* a fan-out turns to observer c in this step
FanoutTurnsTo(c) ==
    \E i \in CallIds :
        /\ calls'[i].pc = "send" /\ calls'[i].cur = c
        /\ calls[i].pc # "send" \/ calls[i].cur # c

\* C19: a connection whose close has been processed is in the registry no
\* more, and no delivery to it is begun: not by its relay task, not by a
\* fan-out.
C19_ClosedIsGone ==
    [][\A c \in Conns :
         wsPc[c] = "closed" =>
             /\ c \notin Registered(active_connections)
             /\ ~RelaySends(c)
             /\ ~FanoutTurnsTo(c)]_vars

\* C20: a mutating call that has done its Store writes and publishes and
\* handed its event to the fan-out returns success, also when a delivery to
\* an observer failed.
C20_DeliveryFailureNotSurfaced ==
    \A i \in CallIds :
        (/\ calls[i].op \in Mutating /\ calls[i].pc = "done"
         /\ FannedOut(i) /\ calls[i].disconnected # {})
        => calls[i].result = "ok"

\* the connection_established messages observer c has received
Greetings(c) == {k \in DOMAIN inbox[c] : inbox[c][k].name = "connection_established"}

\* C21: an observer receives at most one connection_established, exactly one
\* once its connection is open, and it carries the observer's own
\* identifier; none is ever published on the shared topic; the identifiers of
\* two connections differ.
C21_OwnGreetingOnce ==
    \A c \in Conns :
        /\ Cardinality(Greetings(c)) <= 1
        /\ wsPc[c] = "open" => Cardinality(Greetings(c)) = 1
        /\ \A k \in Greetings(c) :
               /\ inbox[c][k].val = Scalar(client_id(c))
               /\ \A d \in Conns \ {c} : inbox[c][k].val # Scalar(client_id(d))
        /\ \A m \in Range(buffer[c]) : m.name # "connection_established"
        /\ \A d \in Conns \ {c} : client_id(c) # client_id(d)

\* two observers are open, and each has received events besides its greeting
C21_Witness ==
    /\ wsPc[1] = "open" /\ wsPc[2] = "open"
    /\ Len(inbox[1]) > 1 /\ Len(inbox[2]) > 1
    /\ Cardinality(Greetings(2)) = 1

IsNumeric(v) == v.kind = "scalar" /\ v.val \in Numbers

\* the documents of agent a are what the data model says they are: the
\* registration a document (its executionConfig, if any, a document too),
\* the metrics absent or a document with numbers for pnl and custom.pnl_24h,
\* the last signal absent or an integer
WellFormed(a) ==
    /\ registration[a].kind = "doc"
    /\ has_exec_config(registration[a]) => exec_config_of(registration[a]).kind = "doc"
    /\ \/ metrics[a] = Absent
       \/ /\ metrics[a].kind = "doc"
          /\ "pnl" \in DOMAIN metrics[a].kids => IsNumeric(metrics[a].kids["pnl"])
          /\ "custom" \in DOMAIN metrics[a].kids =>
                 /\ metrics[a].kids["custom"].kind = "doc"
                 /\ \A k \in DOMAIN metrics[a].kids["custom"].kids :
                        IsNumeric(metrics[a].kids["custom"].kids[k])
    /\ \/ last_signal[a] = Absent
       \/ last_signal[a].kind = "scalar" /\ last_signal[a].val \in IntLiterals

\* C22: a listing that has returned has not failed and holds exactly one
\* panel for every agent whose documents are well formed, whichever other
\* documents are malformed; and no panel for an agent twice.
C22_MalformedOnlyDropsItself ==
    \A i \in CallIds :
        (calls[i].op = "list" /\ calls[i].pc = "done") =>
            /\ calls[i].result = "ok"
            /\ \A a \in Agents :
                   WellFormed(a) =>
                       Cardinality({k \in DOMAIN calls[i].agents :
                                       calls[i].agents[k].agentId = a}) = 1
            /\ Len(calls[i].agents) <= Cardinality(Agents)

\* the metrics of a1 are no JSON and the last signal of a2 is no number
\* in one listing, a registration is no JSON in another
C22_Witness ==
    \E i \in CallIds :
        /\ calls[i].op = "list" /\ calls[i].pc = "done"
        /\ metrics["a1"] = Malformed /\ registration["a1"].kind = "doc"
        /\ WellFormed("a2") /\ metrics["a2"] = MetricsCustom
        /\ Len(calls[i].agents) = 1
        /\ calls[i].agents[1].agentId = "a2"
        /\ calls[i].agents[1].pnl24h = Scalar("2.5")

\* the status call i has handed to the fan-out
Announced(i) == calls[i].fx[Len(calls[i].fx)].val

\* C27: once the pause, resume and restart calls on an agent have all
\* returned, the agent_status_changed handed over last carries the raw state
\* the Store holds for the agent.
C27_LastStatusIsStored ==
    \A i, j \in CallIds :
        (/\ i # j
         /\ calls[i].op \in Lifecycle /\ calls[j].op \in Lifecycle
         /\ calls[i].agentId = calls[j].agentId
         /\ calls[i].result = "ok" /\ calls[j].result = "ok"
         /\ calls[i].emit < calls[j].emit)
        => Announced(j) = Scalar(state[calls[j].agentId])

\* a registration without its config sub-document
Identity(agent_json) ==
    [k \in DOMAIN agent_json.kids \ {"config"} |-> agent_json.kids[k]]

\* C23: no step deletes a registration or changes anything of it but its
\* config sub-document: agentId, name, agentType and tradingPairs stay, with
\* their values.
C23_RegistrationKept ==
    [][\A a \in Agents :
         registration[a] # Absent
         => /\ registration'[a] # Absent
            /\ Identity(registration'[a]) = Identity(registration[a])]_vars

C23_Witness ==
    \E i, j \in CallIds :
        /\ calls[i].op = "injectConfig" /\ calls[i].result = "ok"
        /\ calls[j].op = "promoteCanary" /\ calls[j].result = "ok"
        /\ calls[i].agentId = "a1" /\ calls[j].agentId = "a1"
        /\ DOMAIN Identity(registration["a1"]) = {"agentId", "agentType", "name", "tradingPairs"}
        /\ registration["a1"] # calls[i].agent_data

\* call i takes a step of its handler
Steps(i) == calls[i].pc # "idle" /\ calls'[i] # calls[i]

\* the document a call's operation writes
Written(op) == IF op \in Lifecycle THEN "state" ELSE "registration"

\* C24: a step of pause, resume or restart on agent a changes no document but
\* a's state, a step of injectConfig or promoteCanary on a none but a's
\* registration, and every write and every command of a call is addressed to
\* its own agent.
C24_OwnDocumentOnly ==
    [][\A i \in CallIds :
         Steps(i) =>
            LET a == calls[i].agentId IN
            /\ \A b \in Agents \ {a} :
                  registration'[b] = registration[b] /\ state'[b] = state[b]
            /\ metrics' = metrics /\ last_signal' = last_signal
            /\ calls[i].op \in Lifecycle => registration' = registration
            /\ calls[i].op \notin Lifecycle => state' = state
            /\ \A k \in DOMAIN calls'[i].fx :
                  LET e == calls'[i].fx[k] IN
                  /\ e.k \in {"cmd", "set"} => e.agent = a
                  /\ e.k = "set" => e.name = Written(calls[i].op)]_vars

C24_Witness ==
    \E i, j \in CallIds :
        /\ calls[i].op = "pause" /\ calls[i].agentId = "a1" /\ calls[i].result = "ok"
        /\ calls[j].op = "injectConfig" /\ calls[j].agentId = "a2" /\ calls[j].result = "ok"
        /\ state = [a \in Agents |-> IF a = "a1" THEN "paused" ELSE "disabled"]
        /\ registration["a2"] # Reg("a2", cfgCanary)

\* the registration agent_json after call i, run by itself, has found it so
Applied(i, agent_json) ==
    IF calls[i].op = "injectConfig"
    THEN injected_registration(agent_json, calls[i].config)
    ELSE IF /\ has_exec_config(agent_json)
            /\ IsDict(exec_config_of(agent_json))
            /\ in_canary_mode(exec_config_of(agent_json))
    THEN promoted_registration(agent_json)
    ELSE agent_json

\* the calls that write the registration
Configuring == {"injectConfig", "promoteCanary"}

\* C25: once two injectConfig or promoteCanary calls on the same agent have
\* both returned success, the stored registration is what the two make of the
\* registration one after the other, in one order or the other.
C25_Serializable ==
    \A i, j \in CallIds :
        (/\ i < j
         /\ calls[i].op \in Configuring /\ calls[j].op \in Configuring
         /\ calls[i].agentId = calls[j].agentId
         /\ calls[i].result = "ok" /\ calls[j].result = "ok")
        => registration[calls[i].agentId] \in
              {Applied(j, Applied(i, calls[i].agent_data)),
               Applied(i, Applied(j, calls[j].agent_data))}

\* C26: no two promoteCanary calls on the same agent both succeed, and no two
\* canary_promoted events are published for it, while nothing puts the agent
\* back into canary mode.
C26_OnePromotion ==
    \A i, j \in CallIds :
        (/\ i # j
         /\ calls[i].op = "promoteCanary" /\ calls[j].op = "promoteCanary"
         /\ calls[i].agentId = calls[j].agentId)
        => ~(/\ Effects(i, "event", "canary_promoted") # {}
             /\ Effects(j, "event", "canary_promoted") # {})

\* the calls that announce a status
Announcing == Lifecycle \cup {"promoteCanary"}

\* C28: when a successful pause, resume, restart or promoteCanary is followed
\* by a list() with nothing else under way, the panel of the agent shows the
\* status the call announced in its agent_status_changed.
C28_AnnouncedIsListed ==
    \A i, j \in CallIds :
        (/\ i < j
         /\ calls[i].op \in Announcing /\ calls[i].result = "ok"
         /\ calls[j].op = "list" /\ calls[j].pc = "done")
        => \A v \in Panels(j) :
              v.agentId = calls[i].agentId => Scalar(v.status) = Announced(i)

\* C29: every panel of list() has a status among running, paused and canary
\* and actions that include restart; for a raw state other than paused and
\* disabled (initializing, running, none) the status is canary when the
\* executionConfig says so and running otherwise.
C29_PanelStatus ==
    \A i \in CallIds : \A v \in Panels(i) :
        /\ v.status \in {"running", "paused", "canary"}
        /\ "restart" \in Range(v.actions)
        /\ v.state \notin {"paused", "disabled"}
           => v.status = IF SaysCanary(v.agent_json) THEN "canary" ELSE "running"

C29_Witness ==
    \E i, j \in CallIds : \E v \in Panels(j) :
        /\ calls[i].op = "restart" /\ calls[i].result = "ok"
        /\ calls[j].op = "list" /\ calls[j].pc = "done"
        /\ v.agentId = "a1" /\ v.state = "initializing" /\ v.status = "running"

\* the ways a call is refused
Refusals == {"AgentNotFound", "NoExecutionConfig", "NotInCanary"}

\* C30: a call is refused with AgentNotFound, NoExecutionConfig or
\* NotInCanary in its first step, which changes no Store document and no
\* pubsub, and it has published and written nothing; a state document that
\* is written holds paused, running or initializing.
C30_RefusedLeavesNoTrace ==
    [][/\ \A i \in CallIds :
            (Steps(i) /\ calls'[i].result \in Refusals)
            => /\ calls[i].pc = FirstAwait(calls[i].op)
               /\ calls'[i].fx = <<>>
               /\ registration' = registration /\ state' = state
               /\ metrics' = metrics /\ last_signal' = last_signal
               /\ buffer' = buffer /\ inbox' = inbox
       /\ \A a \in Agents :
            state'[a] # state[a] => state'[a] \in {"paused", "running", "initializing"}]_vars

C30_Witness ==
    \E i, j \in CallIds :
        /\ subscribed[1]
        /\ calls[i].op = "promoteCanary" /\ calls[i].result = "NoExecutionConfig"
        /\ calls[j].op = "pause" /\ calls[j].result = "ok"
        /\ state["a1"] = "paused"

\* the positions in observer c's inbox that hold the event name of call i
Deliveries(c, i, name) ==
    {k \in DOMAIN inbox[c] : inbox[c][k].call = i /\ inbox[c][k].name = name}

\* the event names that reach observers
EventNames ==
    {"pause_requested", "resume_requested", "restart_requested",
     "config_update_requested", "canary_promoted",
     "agent_status_changed", "agent_config_updated"}

\* C31: no observer connection receives an event of a call twice, neither
\* twice by one path nor once by the relay and once by the direct fan-out.
C31_AtMostOnce ==
    \A c \in Conns : \A i \in CallIds : \A name \in EventNames :
        Cardinality(Deliveries(c, i, name)) <= 1

C31_Witness ==
    \E i \in CallIds :
        /\ calls[i].op = "pause" /\ calls[i].result = "ok"
        /\ \A c \in 1..FanoutConns :
              /\ wsPc[c] = "open"
              /\ Cardinality(Deliveries(c, i, "pause_requested")) = 1
              /\ Cardinality(Deliveries(c, i, "agent_status_changed")) = 1
              /\ \E k \in DOMAIN inbox[c] : inbox[c][k].via = "relay"
              /\ \E k \in DOMAIN inbox[c] : inbox[c][k].via = "direct"
====
